---- MODULE Spec2Model ----
(***************************************************************************)
(* Model of the procurement bot (src/bot.py): the Google-Sheets ledger     *)
(* (append, pending lookup, cancel, search, weekly summary) and the two    *)
(* per-user conversations that drive it.                                   *)
(*                                                                         *)
(* Text is modelled as a sequence of one-character strings so that         *)
(* lower(), upper(), strip(), "in" and number formatting are computed, not *)
(* assumed.  A ledger row is the 10-column list the code writes; Python's  *)
(* row[k] is row[k+1] here.                                                *)
(***************************************************************************)
EXTENDS Integers, Sequences, FiniteSets, TLC

\* ------------------------------------------------------------------ bounds
MaxRows == 2        \* data rows the ledger may hold in the conversation model
MaxActive == 1      \* users that may be inside a conversation at the same time
MaxLedgerRows == 2  \* data rows the ledger may hold in the ledger model
MaxPendingRows == 3 \* data rows of the ledgers the pending-lookup model draws
MaxWeeklyRows == 2  \* data rows of the ledgers the weekly-summary model draws
MaxScanRows == 11   \* data rows of the ledgers the search model builds
MaxOtherRows == 2   \* rows of the second order in a ledger of the search model
MaxRaceRows == 3    \* data rows the ledger may hold in the two-process model

\* ------------------------------------------------------- program constants
ARTIKEL == 0
MENGE == 1
DRINGLICHKEIT == 2
KOSTENSTELLE == 3
FOTO == 4
BESTAETIGUNG == 5
STORNO_AUSWAHL == 6
END == -1           \* ConversationHandler.END
OrderNumberWidth == 3   \* the 03d of get_next_order_number
SearchLimit == 10       \* results[:10]
MinPendingCols == 9     \* len(row) >= 9
MinSearchCols == 8      \* len(row) >= 8
StatusCol == 9          \* update_cell(row_number, 9, ...)
DateCol == 10           \* update_cell(row_number, 10, ...)
DaysPerWeek == 7        \* today.weekday() counts from Monday = 0

\* ------------------------------------------------------------------- text
UpperAlpha == <<"A","B","C","D","E","F","G","H","I","J","K","L","M",
                "N","O","P","Q","R","S","T","U","V","W","X","Y","Z">>
LowerAlpha == <<"a","b","c","d","e","f","g","h","i","j","k","l","m",
                "n","o","p","q","r","s","t","u","v","w","x","y","z">>
Digits == <<"0","1","2","3","4","5","6","7","8","9">>

\* the letter tables of lower() and upper()
LowerMap == [c \in {UpperAlpha[i] : i \in 1..Len(UpperAlpha)} |->
                LowerAlpha[CHOOSE i \in 1..Len(UpperAlpha) : UpperAlpha[i] = c]]
UpperMap == [c \in {LowerAlpha[i] : i \in 1..Len(LowerAlpha)} |->
                UpperAlpha[CHOOSE i \in 1..Len(LowerAlpha) : LowerAlpha[i] = c]]

LowerChar(c) == IF c \in DOMAIN LowerMap THEN LowerMap[c] ELSE c
UpperChar(c) == IF c \in DOMAIN UpperMap THEN UpperMap[c] ELSE c

\* str.lower() and str.upper()
Lower(s) == [i \in 1..Len(s) |-> LowerChar(s[i])]
Upper(s) == [i \in 1..Len(s) |-> UpperChar(s[i])]

IsSpace(c) == c \in {" ", "\t", "\n"}

\* str.strip(): drop leading and trailing whitespace
Strip(s) ==
    LET keep == {i \in 1..Len(s) : ~IsSpace(s[i])}
    IN  IF keep = {} THEN <<>>
        ELSE LET lo == CHOOSE i \in keep : \A j \in keep : i <= j
                 hi == CHOOSE i \in keep : \A j \in keep : j <= i
             IN  SubSeq(s, lo, hi)

\* Python's  needle in hay  on strings
Contains(hay, needle) ==
    \E i \in 0..(Len(hay) - Len(needle)) :
        SubSeq(hay, i + 1, i + Len(needle)) = needle

\* str(n) for n >= 0
RECURSIVE Str(_)
Str(n) == IF n < 10 THEN <<Digits[n + 1]>>
          ELSE Str(n \div 10) \o <<Digits[(n % 10) + 1]>>

RECURSIVE ZeroPad(_, _)
ZeroPad(s, width) == IF Len(s) >= width THEN s ELSE ZeroPad(<<"0">> \o s, width)

\* f"#{order_count:03d}"
FormatOrderNumber(order_count) == <<"#">> \o ZeroPad(Str(order_count), OrderNumberWidth)

DigitMap == [c \in {Digits[i] : i \in 1..Len(Digits)} |->
                (CHOOSE i \in 1..Len(Digits) : Digits[i] = c) - 1]
IsDigit(c) == c \in DOMAIN DigitMap
DigitVal(c) == DigitMap[c]

\* ------------------------------------------------------------------- time
\* A datetime is a record of the calendar day (day 0 is a Monday), the minute of
\* the day, the second of the minute and the microsecond.

DtLeq(a, b) ==
    \/ a.day < b.day
    \/ a.day = b.day /\ a.min < b.min
    \/ a.day = b.day /\ a.min = b.min /\ a.sec < b.sec
    \/ a.day = b.day /\ a.min = b.min /\ a.sec = b.sec /\ a.us <= b.us

\* strftime("%Y-%m-%d %H:%M:%S"): the microseconds are dropped
FormatTimestamp(dt) ==
    ZeroPad(Str(dt.day), 2) \o <<" ">> \o Str(dt.min) \o <<":">> \o Str(dt.sec)

\* strftime("%Y-%m-%d %H:%M"): seconds and microseconds are dropped
FormatMinute(dt) == ZeroPad(Str(dt.day), 2) \o <<" ">> \o Str(dt.min)

\* datetime.strptime(text, "%Y-%m-%d %H:%M:%S") raises ValueError unless the text
\* has the format's shape
Parses(text) ==
    /\ Len(text) = 6
    /\ IsDigit(text[1]) /\ IsDigit(text[2]) /\ text[3] = " "
    /\ IsDigit(text[4]) /\ text[5] = ":" /\ IsDigit(text[6])

ParseTimestamp(text) ==
    [day |-> 10 * DigitVal(text[1]) + DigitVal(text[2]),
     min |-> DigitVal(text[4]), sec |-> DigitVal(text[6]), us |-> 0]

\* today.weekday()
Weekday(dt) == dt.day % DaysPerWeek

\* today.replace(hour=0, minute=0, second=0) - timedelta(days=today.weekday()):
\* replace() keeps today's microsecond
WeekStart(today) ==
    [day |-> today.day - Weekday(today), min |-> 0, sec |-> 0, us |-> today.us]

\* ----------------------------------------------------------------- ledger
STORNIERT == <<"S","T","O","R","N","I","E","R","T">>
EmptyText == <<>>

\* The header row of the sheet (one cell per column of the row layout).
HeaderRow == << <<"N","r">>, <<"T","s">>, <<"M","a">>, <<"I","d">>, <<"A","r">>,
                <<"M","e">>, <<"D","r">>, <<"K","s">>, <<"B","?">>, <<"B","a">> >>

\* Python's  row[k] if len(row) > k else ""   (k is the 0-based index)
Cell(row, k) == IF Len(row) > k THEN row[k + 1] ELSE EmptyText

\* worksheet.update_cell(row, col, value): the grid holds blank rows below the
\* last written one, so a write past the end leaves blank rows in between
BlankRow == [c \in 1..DateCol |-> EmptyText]
UpdateCell(s, r, c, v) ==
    LET grown == [i \in 1..(IF r > Len(s) THEN r ELSE Len(s)) |->
                     IF i <= Len(s) THEN s[i] ELSE BlankRow]
    IN  [grown EXCEPT ![r][c] = v]

\* get_next_order_number(): its own connect, then the row count
get_next_order_number(s, connect_ok, read_ok) ==
    IF ~connect_ok THEN <<"#","0","0","1">>
    ELSE IF ~read_ok THEN <<"#","?","?","?">>
    ELSE FormatOrderNumber(Len(s))

\* the row with "offen" in the "Bestellt?" column
OrderRow_offen(order_number, data) ==
    << order_number, data.timestamp, data.mitarbeiter, Str(data.chat_id),
       data.artikel, data.menge, data.dringlichkeit, data.kostenstelle,
       <<"o","f","f","e","n">>, EmptyText >>

\* the row save_to_sheet() builds
OrderRow(order_number, data) ==
    << order_number, data.timestamp, data.mitarbeiter, Str(data.chat_id),
       data.artikel, data.menge, data.dringlichkeit, data.kostenstelle,
       EmptyText, EmptyText >>

\* save_to_sheet() with insert_row(row, 2) in place of append_row(row): the new
\* row goes right under the header and pushes the others down
save_to_sheet_insert(s, data, io) ==
    IF ~io.connect \/ ~io.append
    THEN [ok |-> FALSE, order_number |-> EmptyText, sheet |-> s]
    ELSE LET order_number == get_next_order_number(s, io.num_connect, io.num_read)
         IN  [ok |-> TRUE, order_number |-> order_number,
              sheet |-> <<s[1], OrderRow(order_number, data)>> \o Tail(s)]

\* save_to_sheet(data) -> (success, order_number), and the sheet it leaves.
\* io names the outcome of each store round trip.
save_to_sheet(s, data, io) ==
    IF ~io.connect THEN [ok |-> FALSE, order_number |-> EmptyText, sheet |-> s]
    ELSE LET order_number == get_next_order_number(s, io.num_connect, io.num_read)
         IN  IF ~io.append
             THEN [ok |-> FALSE, order_number |-> EmptyText, sheet |-> s]
             ELSE [ok |-> TRUE, order_number |-> order_number,
                   sheet |-> Append(s, OrderRow(order_number, data))]

\* the entry with the rows counted from 1 (enumerate(..., start=1))
PendingEntry_from1(i, row) ==
    [row |-> i - 1, order_number |-> row[1], timestamp |-> row[2], artikel |-> row[5],
     menge |-> row[6], dringlichkeit |-> row[7], kostenstelle |-> row[8]]

\* the dict appended for a pending row; i is the row's position in the sheet
PendingEntry(i, row) ==
    [row |-> i, order_number |-> row[1], timestamp |-> row[2], artikel |-> row[5],
     menge |-> row[6], dringlichkeit |-> row[7], kostenstelle |-> row[8]]

\* the test of the loop without the look at the "Bestellt?" column
IsPendingFor_nostatus(row, chat_id) ==
    /\ Len(row) >= MinPendingCols
    /\ Str(chat_id) = Cell(row, 3)

\* the test of the loop: the row is wide enough, carries the chat id and its
\* "Bestellt?" cell is blank once stripped
IsPendingFor(row, chat_id) ==
    /\ Len(row) >= MinPendingCols
    /\ Str(chat_id) = Cell(row, 3)
    /\ Strip(Cell(row, 8)) = EmptyText

\* the loop of get_pending_orders_for_user over all_values[1:], counting from 2
RECURSIVE PendingScan(_, _, _)
PendingScan(all_values, chat_id, i) ==
    IF i > Len(all_values) THEN <<>>
    ELSE (IF IsPendingFor(all_values[i], chat_id)
          THEN <<PendingEntry(i, all_values[i])>> ELSE <<>>)
         \o PendingScan(all_values, chat_id, i + 1)

get_pending_orders_for_user(s, chat_id, connect_ok, read_ok) ==
    IF ~connect_ok \/ ~read_ok THEN <<>>
    ELSE IF Len(s) <= 1 THEN <<>>
    ELSE PendingScan(s, chat_id, 2)

\* cancel_order() with the two column numbers swapped
cancel_order_swapped(s, row_number, now, io) ==
    IF ~io.connect \/ ~io.write_status THEN [ok |-> FALSE, sheet |-> s]
    ELSE LET marked == UpdateCell(s, row_number, DateCol, STORNIERT)
         IN  IF ~io.write_date THEN [ok |-> FALSE, sheet |-> marked]
             ELSE [ok |-> TRUE,
                   sheet |-> UpdateCell(marked, row_number, StatusCol, FormatMinute(now))]

\* cancel_order() that reads the "Bestellt?" cell first and gives up when the row
\* is no longer pending
cancel_order_ifPending(s, row_number, now, io) ==
    IF ~io.connect THEN [ok |-> FALSE, sheet |-> s]
    ELSE IF row_number <= Len(s) /\ Strip(s[row_number][StatusCol]) # EmptyText
    THEN [ok |-> FALSE, sheet |-> s]
    ELSE IF ~io.write_status THEN [ok |-> FALSE, sheet |-> s]
    ELSE LET marked == UpdateCell(s, row_number, StatusCol, STORNIERT)
         IN  IF ~io.write_date THEN [ok |-> FALSE, sheet |-> marked]
             ELSE [ok |-> TRUE,
                   sheet |-> UpdateCell(marked, row_number, DateCol, FormatMinute(now))]

\* cancel_order(row_number) -> bool, and the sheet it leaves: two cell writes
cancel_order(s, row_number, now, io) ==
    IF ~io.connect THEN [ok |-> FALSE, sheet |-> s]
    ELSE IF ~io.write_status THEN [ok |-> FALSE, sheet |-> s]
    ELSE LET marked == UpdateCell(s, row_number, StatusCol, STORNIERT)
         IN  IF ~io.write_date THEN [ok |-> FALSE, sheet |-> marked]
             ELSE [ok |-> TRUE,
                   sheet |-> UpdateCell(marked, row_number, DateCol, FormatMinute(now))]

SearchEntry(i, row) ==
    [row |-> i, order_number |-> row[1], timestamp |-> row[2], mitarbeiter |-> row[3],
     artikel |-> row[5], menge |-> row[6], dringlichkeit |-> row[7],
     kostenstelle |-> row[8], bestellt |-> Cell(row, 8)]

\* the loop of search_orders
RECURSIVE SearchScan(_, _, _)
SearchScan(all_values, search_lower, i) ==
    IF i > Len(all_values) THEN <<>>
    ELSE LET row == all_values[i]
             hit == /\ Len(row) >= MinSearchCols
                    /\ \/ Contains(Lower(Cell(row, 4)), search_lower)
                       \/ Contains(Lower(Cell(row, 2)), search_lower)
                       \/ Contains(Lower(Cell(row, 7)), search_lower)
         IN  (IF hit THEN <<SearchEntry(i, row)>> ELSE <<>>)
             \o SearchScan(all_values, search_lower, i + 1)

\* results[:10]
Take(q, n) == SubSeq(q, 1, IF Len(q) < n THEN Len(q) ELSE n)

\* search_orders() comparing the term as typed, without .lower()
search_orders_asTyped(s, search_term, connect_ok, read_ok) ==
    IF ~connect_ok \/ ~read_ok THEN <<>>
    ELSE IF Len(s) <= 1 THEN <<>>
    ELSE Take(SearchScan(s, search_term, 2), SearchLimit)

\* search_orders(search_term) -> list, at most 10 results
search_orders(s, search_term, connect_ok, read_ok) ==
    IF ~connect_ok \/ ~read_ok THEN <<>>
    ELSE IF Len(s) <= 1 THEN <<>>
    ELSE Take(SearchScan(s, Lower(search_term), 2), SearchLimit)

\* the status glyph without the test for STORNIERT
StatusGlyph_truthy(bestellt) == IF bestellt # EmptyText THEN "ordered" ELSE "pending"

\* the status glyph suche_command prints for a result
StatusGlyph(bestellt) ==
    IF bestellt # EmptyText /\ bestellt # STORNIERT THEN "ordered"
    ELSE IF bestellt = STORNIERT THEN "cancelled"
    ELSE "pending"

\* by_kostenstelle[ks] = by_kostenstelle.get(ks, 0) + 1
Bump(d, k) ==
    [x \in DOMAIN d \cup {k} |->
        IF x = k THEN (IF k \in DOMAIN d THEN d[k] ELSE 0) + 1 ELSE d[x]]

NoCounts == [x \in {} |-> 0]

\* the counting of one row with  if status != "": ordered += 1  after the tests for
\* pending and cancelled, in place of the final else
Tally_noElse(acc, row) ==
    LET status == Upper(Strip(row[9]))
    IN  [total |-> acc.total + 1,
         pending |-> acc.pending + (IF status = EmptyText THEN 1 ELSE 0),
         ordered |-> acc.ordered + (IF status # EmptyText THEN 1 ELSE 0),
         cancelled |-> acc.cancelled + (IF status = STORNIERT THEN 1 ELSE 0),
         by_kostenstelle |-> Bump(acc.by_kostenstelle, row[8])]

\* the counting of one row of the week: total, one of the three status counters
\* (if / elif / else on the stripped, upper-cased status), and the cost center
Tally(acc, row) ==
    LET status == Upper(Strip(row[9]))
    IN  [total |-> acc.total + 1,
         pending |-> acc.pending + (IF status = EmptyText THEN 1 ELSE 0),
         ordered |-> acc.ordered +
             (IF status # EmptyText /\ status # STORNIERT THEN 1 ELSE 0),
         cancelled |-> acc.cancelled +
             (IF status # EmptyText /\ status = STORNIERT THEN 1 ELSE 0),
         by_kostenstelle |-> Bump(acc.by_kostenstelle, row[8])]

\* the row is wide enough, its timestamp parses (strptime raises otherwise and
\* the bare except skips the row) and is not before week_start
InWeek(row, week_start) ==
    /\ Len(row) >= MinPendingCols
    /\ Parses(row[2])
    /\ DtLeq(week_start, ParseTimestamp(row[2]))

\* the loop of get_weekly_summary; acc carries the five running counters
RECURSIVE WeeklyScan(_, _, _, _)
WeeklyScan(all_values, week_start, i, acc) ==
    IF i > Len(all_values) THEN acc
    ELSE WeeklyScan(all_values, week_start, i + 1,
                    IF InWeek(all_values[i], week_start)
                    THEN Tally(acc, all_values[i]) ELSE acc)

\* get_weekly_summary() -> dict; today is datetime.now()
get_weekly_summary(s, today, connect_ok, read_ok) ==
    IF ~connect_ok \/ ~read_ok THEN NoCounts
    ELSE IF Len(s) <= 1
    THEN [total |-> 0, pending |-> 0, ordered |-> 0, cancelled |-> 0]
    ELSE WeeklyScan(s, WeekStart(today), 2,
                    [total |-> 0, pending |-> 0, ordered |-> 0, cancelled |-> 0,
                     by_kostenstelle |-> NoCounts])

\* ---------------------------------------------------- inputs of the model
\* Chat identities (private chats: chat id = user id) and their profile names.
Users == {1, 2}
FirstName(u) == IF u = 1 THEN <<"A","l">> ELSE <<"B","o">>
LastName(u) == IF u = 1 THEN EmptyText ELSE <<"L","i">>

\* Free text a user may send in any collecting state.
ArtikelTexts == { <<"T","o">>, <<"l","a">> }
MengeTexts == { <<"2">> }
DringlichkeitTexts == { <<"N","o">> }
KostenstelleTexts == { <<"L","a">> }
\* File ids of photos.
Photos == { <<"F">> }
\* What datetime.now() may return while the conversations run.
Nows == { [day |-> 8, min |-> 1, sec |-> 0, us |-> 1] }
\* Terms given to /suche.
SearchTerms == { <<"t","O">>, <<"l","a">> }
\* When an administrator edits the sheet by hand: not at a moment the bot writes.
ManualNows == { [day |-> 8, min |-> 0, sec |-> 0, us |-> 0] }
\* What an administrator types into the "Bestellt?" column by hand.
ManualStatuses == { <<"j","a">> }

\* Outcomes of the store round trips of one call.
\* Outcomes of the store round trips of one call, in call order; a round trip that
\* is not reached (an earlier one failed and the function returned) is not drawn.
SaveIo == { io \in [connect : BOOLEAN, num_connect : BOOLEAN, num_read : BOOLEAN,
                    append : BOOLEAN] :
              /\ ~io.connect => (io.num_connect /\ io.num_read /\ io.append)
              /\ ~io.num_connect => io.num_read }
CancelIo == { io \in [connect : BOOLEAN, write_status : BOOLEAN, write_date : BOOLEAN] :
                /\ ~io.connect => (io.write_status /\ io.write_date)
                /\ ~io.write_status => io.write_date }
ReadIo == { io \in [connect : BOOLEAN, read : BOOLEAN] : ~io.connect => io.read }
AllOk == [connect |-> TRUE, read |-> TRUE]

\* callback_data of the inline buttons: a prefix and the rest of the token
ConfirmTokens == { [prefix |-> "confirm_", arg |-> a] :
                     a \in { <<"y","e","s">>, <<"r","e","s","t","a","r","t">>,
                             <<"c","a","n","c","e","l">> } }
CancelTokens == { [prefix |-> "cancel_", arg |-> <<"a","b","o","r","t">>] }
                \cup { [prefix |-> "cancel_", arg |-> Str(r)] : r \in 1..(MaxRows + 2) }
Tokens == ConfirmTokens \cup CancelTokens

\* ------------------------------------------------------------------ state
VARIABLES
    sheet,          \* the worksheet: a sequence of rows, the header first
    user_data,      \* context.user_data of each user: a dict (a function on its keys)
    order_state,    \* state of order_conv_handler per user (END: not in it)
    storno_state,   \* state of storno_conv_handler per user
    out,            \* what the last handler sent: reply to the user, admin notice
    saving          \* save_to_sheet() calls under way, per bot process: the position
                    \* between its round trips and the order number it has read

vars == <<sheet, user_data, order_state, storno_state, out, saving>>

\* ----------------------------------------------------------- dict helpers
EmptyDict == [x \in {} |-> EmptyText]
Put(d, k, v) == [x \in DOMAIN d \cup {k} |-> IF x = k THEN v ELSE d[x]]
\* dict.get(k, default)
Get(d, k, default) == IF k \in DOMAIN d THEN d[k] ELSE default
OrderKeys == {"artikel", "menge", "dringlichkeit", "kostenstelle"}

Out(handler, u, reply, order_number, admin) ==
    [handler |-> handler, user |-> u, reply |-> reply,
     order_number |-> order_number, admin |-> admin, arg |-> <<>>, result |-> <<>>]
\* the same for a query command, with its argument and what the query returned
OutResult(handler, u, reply, arg, result) ==
    [handler |-> handler, user |-> u, reply |-> reply,
     order_number |-> EmptyText, admin |-> "none", arg |-> arg, result |-> result]

\* int(text): ValueError unless the text is a decimal number
IntParses(text) == Len(text) > 0 /\ \A i \in 1..Len(text) : IsDigit(text[i])
RECURSIVE IntOf(_)
IntOf(text) == IF Len(text) = 1 THEN DigitVal(text[1])
               ELSE 10 * IntOf(SubSeq(text, 1, Len(text) - 1)) + DigitVal(text[Len(text)])

\* f"{user.first_name} {user.last_name or ''}".strip()
Mitarbeiter(u) == Strip(FirstName(u) \o <<" ">> \o LastName(u))

\* position of a save_to_sheet() call between its round trips
Idle == [pc |-> "idle", order_number |-> EmptyText, seen |-> 0, text |-> EmptyText]
NoSaving == [u \in Users |-> Idle]

Init ==
    /\ sheet = <<HeaderRow>>
    /\ user_data = [u \in Users |-> EmptyDict]
    /\ order_state = [u \in Users |-> END]
    /\ storno_state = [u \in Users |-> END]
    /\ out = Out("none", 0, "none", EmptyText, "none")
    /\ saving = NoSaving

\* ------------------------------------------------- order conversation
\* /start, entry point of order_conv_handler
start(u) ==
    /\ UNCHANGED saving
    /\ order_state[u] = END
    /\ order_state' = [order_state EXCEPT ![u] = ARTIKEL]
    /\ out' = Out("start", u, "ask_artikel", EmptyText, "none")
    /\ UNCHANGED <<sheet, user_data, storno_state>>

\* the four text states: store the text under the state's key, advance
Collect(u, state, key, next_state, text) ==
    /\ UNCHANGED saving
    /\ order_state[u] = state
    /\ user_data' = [user_data EXCEPT ![u] = Put(@, key, text)]
    /\ order_state' = [order_state EXCEPT ![u] = next_state]
    /\ out' = Out(key, u, "ask_next", EmptyText, "none")
    /\ UNCHANGED <<sheet, storno_state>>

artikel(u, text) == Collect(u, ARTIKEL, "artikel", MENGE, text)
menge(u, text) == Collect(u, MENGE, "menge", DRINGLICHKEIT, text)
dringlichkeit(u, text) == Collect(u, DRINGLICHKEIT, "dringlichkeit", KOSTENSTELLE, text)
kostenstelle(u, text) == Collect(u, KOSTENSTELLE, "kostenstelle", FOTO, text)

\* show_confirmation(): reads the four fields; a missing key raises KeyError and
\* the conversation keeps its state
ShowConfirmation(u, handler, data) ==
    IF OrderKeys \subseteq DOMAIN data
    THEN /\ order_state' = [order_state EXCEPT ![u] = BESTAETIGUNG]
         /\ out' = Out(handler, u, "summary", EmptyText, "none")
    ELSE /\ order_state' = order_state
         /\ out' = Out(handler, u, "exception", EmptyText, "none")

\* a photo in FOTO
foto_received(u, file_id) ==
    /\ UNCHANGED saving
    /\ order_state[u] = FOTO
    /\ user_data' = [user_data EXCEPT ![u] = Put(@, "foto_id", file_id)]
    /\ ShowConfirmation(u, "foto_received", user_data'[u])
    /\ UNCHANGED <<sheet, storno_state>>

\* /weiter or /skip in FOTO
foto_skip(u) ==
    /\ UNCHANGED saving
    /\ order_state[u] = FOTO
    /\ user_data' = [user_data EXCEPT ![u] = Put(@, "foto_id", EmptyText)]
    /\ ShowConfirmation(u, "foto_skip", user_data'[u])
    /\ UNCHANGED <<sheet, storno_state>>

\* the data dict save_order() builds
OrderData(u, d, now) ==
    [timestamp |-> FormatTimestamp(now), mitarbeiter |-> Mitarbeiter(u), chat_id |-> u,
     artikel |-> d["artikel"], menge |-> d["menge"],
     dringlichkeit |-> d["dringlichkeit"], kostenstelle |-> d["kostenstelle"],
     foto_id |-> Get(d, "foto_id", EmptyText)]

\* save_order() that returns on a failed save before the clear(), leaving the
\* conversation where it was
save_order_stayOnFailure(u, now, io, admin_ok) ==
    IF ~(OrderKeys \subseteq DOMAIN user_data[u])
    THEN /\ out' = Out("save_order", u, "exception", EmptyText, "none")
         /\ UNCHANGED <<sheet, user_data, order_state, storno_state>>
    ELSE LET saved == save_to_sheet(sheet, OrderData(u, user_data[u], now), io)
         IN  IF saved.ok
             THEN /\ sheet' = saved.sheet
                  /\ out' = Out("save_order", u, "saved", saved.order_number,
                                IF admin_ok THEN "sent" ELSE "failed")
                  /\ user_data' = [user_data EXCEPT ![u] = EmptyDict]
                  /\ order_state' = [order_state EXCEPT ![u] = END]
                  /\ UNCHANGED storno_state
             ELSE /\ out' = Out("save_order", u, "save_failed", EmptyText, "none")
                  /\ UNCHANGED <<sheet, user_data, order_state, storno_state>>

\* save_order() without the try/except around the admin notification: a failed
\* send raises after the save and the reply, before the clear() and the return
save_order_adminRaises(u, now, io, admin_ok) ==
    IF ~(OrderKeys \subseteq DOMAIN user_data[u])
    THEN /\ out' = Out("save_order", u, "exception", EmptyText, "none")
         /\ UNCHANGED <<sheet, user_data, order_state, storno_state>>
    ELSE LET saved == save_to_sheet(sheet, OrderData(u, user_data[u], now), io)
         IN  /\ sheet' = saved.sheet
             /\ out' = IF saved.ok
                       THEN Out("save_order", u, "saved", saved.order_number,
                                IF admin_ok THEN "sent" ELSE "failed")
                       ELSE Out("save_order", u, "save_failed", EmptyText, "none")
             /\ IF saved.ok /\ ~admin_ok
                THEN UNCHANGED <<user_data, order_state>>
                ELSE /\ user_data' = [user_data EXCEPT ![u] = EmptyDict]
                     /\ order_state' = [order_state EXCEPT ![u] = END]
             /\ UNCHANGED storno_state

\* save_order(): append, reply, notify the admin, clear the scratch state
save_order(u, now, io, admin_ok) ==
    IF ~(OrderKeys \subseteq DOMAIN user_data[u])
    THEN \* KeyError while building data: nothing after it runs
         /\ out' = Out("save_order", u, "exception", EmptyText, "none")
         /\ UNCHANGED <<sheet, user_data, order_state, storno_state>>
    ELSE LET saved == save_to_sheet(sheet, OrderData(u, user_data[u], now), io)
         IN  /\ sheet' = saved.sheet
             /\ out' = IF saved.ok
                       THEN Out("save_order", u, "saved", saved.order_number,
                                IF admin_ok THEN "sent" ELSE "failed")
                       ELSE Out("save_order", u, "save_failed", EmptyText, "none")
             /\ user_data' = [user_data EXCEPT ![u] = EmptyDict]
             /\ order_state' = [order_state EXCEPT ![u] = END]
             /\ UNCHANGED storno_state

\* the submit button handled in any state of the conversation (the handler
\* registered for every state instead of BESTAETIGUNG alone)
confirmation_callback_anyState(u, token, now, io, admin_ok) ==
    /\ UNCHANGED saving
    /\ order_state[u] # END
    /\ token = [prefix |-> "confirm_", arg |-> <<"y","e","s">>]
    /\ save_order(u, now, io, admin_ok)

\* confirmation_callback() whose restart branch lacks context.user_data.clear()
confirmation_callback_restartKeeps(u, token, now, io, admin_ok) ==
    /\ UNCHANGED saving
    /\ order_state[u] = BESTAETIGUNG
    /\ token.prefix = "confirm_"
    /\ IF token.arg = <<"y","e","s">>
       THEN save_order(u, now, io, admin_ok)
       ELSE IF token.arg = <<"r","e","s","t","a","r","t">>
       THEN /\ order_state' = [order_state EXCEPT ![u] = ARTIKEL]
            /\ out' = Out("confirmation_callback", u, "restart", EmptyText, "none")
            /\ UNCHANGED <<sheet, user_data, storno_state>>
       ELSE /\ user_data' = [user_data EXCEPT ![u] = EmptyDict]
            /\ order_state' = [order_state EXCEPT ![u] = END]
            /\ out' = Out("confirmation_callback", u, "aborted", EmptyText, "none")
            /\ UNCHANGED <<sheet, storno_state>>

\* a callback matching ^confirm_ in BESTAETIGUNG
confirmation_callback(u, token, now, io, admin_ok) ==
    /\ UNCHANGED saving
    /\ order_state[u] = BESTAETIGUNG
    /\ token.prefix = "confirm_"
    /\ IF token.arg = <<"y","e","s">>
       THEN save_order(u, now, io, admin_ok)
       ELSE IF token.arg = <<"r","e","s","t","a","r","t">>
       THEN /\ user_data' = [user_data EXCEPT ![u] = EmptyDict]
            /\ order_state' = [order_state EXCEPT ![u] = ARTIKEL]
            /\ out' = Out("confirmation_callback", u, "restart", EmptyText, "none")
            /\ UNCHANGED <<sheet, storno_state>>
       ELSE /\ user_data' = [user_data EXCEPT ![u] = EmptyDict]
            /\ order_state' = [order_state EXCEPT ![u] = END]
            /\ out' = Out("confirmation_callback", u, "aborted", EmptyText, "none")
            /\ UNCHANGED <<sheet, storno_state>>

\* cancel() without context.user_data.clear()
cancel_noClear(u) ==
    /\ UNCHANGED saving
    /\ order_state[u] # END \/ storno_state[u] # END
    /\ IF order_state[u] # END
       THEN order_state' = [order_state EXCEPT ![u] = END] /\ UNCHANGED storno_state
       ELSE storno_state' = [storno_state EXCEPT ![u] = END] /\ UNCHANGED order_state
    /\ out' = Out("cancel", u, "aborted", EmptyText, "none")
    /\ UNCHANGED <<sheet, user_data>>

\* /abbrechen or /cancel: a fallback of the order conversation, and (/abbrechen)
\* of the cancellation conversation when the order conversation is not active
cancel(u) ==
    /\ UNCHANGED saving
    /\ order_state[u] # END \/ storno_state[u] # END
    /\ user_data' = [user_data EXCEPT ![u] = EmptyDict]
    /\ IF order_state[u] # END
       THEN order_state' = [order_state EXCEPT ![u] = END] /\ UNCHANGED storno_state
       ELSE storno_state' = [storno_state EXCEPT ![u] = END] /\ UNCHANGED order_state
    /\ out' = Out("cancel", u, "aborted", EmptyText, "none")
    /\ UNCHANGED sheet

\* ------------------------------------------ cancellation conversation
\* stornieren_start() without the early return for an empty pending list
stornieren_start_noEarlyReturn(u, io) ==
    /\ UNCHANGED saving
    /\ storno_state[u] = END
    /\ LET pending == get_pending_orders_for_user(sheet, u, io.connect, io.read)
       IN  /\ user_data' = [user_data EXCEPT ![u] = Put(@, "pending_orders", pending)]
           /\ storno_state' = [storno_state EXCEPT ![u] = STORNO_AUSWAHL]
           /\ out' = OutResult("stornieren_start", u, "offer_choices", <<>>, pending)
    /\ UNCHANGED <<sheet, order_state>>

\* /stornieren, entry point of storno_conv_handler
stornieren_start(u, io) ==
    /\ UNCHANGED saving
    /\ storno_state[u] = END
    /\ LET pending == get_pending_orders_for_user(sheet, u, io.connect, io.read)
       IN  IF pending = <<>>
           THEN /\ out' = OutResult("stornieren_start", u, "none_pending", <<>>, pending)
                /\ UNCHANGED <<user_data, storno_state>>
           ELSE /\ user_data' = [user_data EXCEPT ![u] = Put(@, "pending_orders", pending)]
                /\ storno_state' = [storno_state EXCEPT ![u] = STORNO_AUSWAHL]
                /\ out' = OutResult("stornieren_start", u, "offer_choices", <<>>, pending)
    /\ UNCHANGED <<sheet, order_state>>

\* next((o for o in pending if o["row"] == row_number), None): the index, 0 for None
FindOrder(pending, row_number) ==
    IF \E i \in 1..Len(pending) : pending[i].row = row_number
    THEN CHOOSE i \in 1..Len(pending) :
            /\ pending[i].row = row_number
            /\ \A j \in 1..(i - 1) : pending[j].row # row_number
    ELSE 0

\* query.data.replace("cancel_", "")
StripCancelPrefix(token) ==
    IF token.prefix = "cancel_" THEN token.arg
    ELSE <<"c","o","n","f","i","r","m","_">> \o token.arg

\* stornieren_callback() that cancels the row the token names without looking it
\* up in the cached pending list
stornieren_callback_noLookup(u, token, now, io, admin_ok) ==
    /\ UNCHANGED saving
    /\ storno_state[u] = STORNO_AUSWAHL
    /\ token.prefix = "cancel_" /\ IntParses(token.arg)
    /\ LET row_number == IntOf(token.arg)
           done == cancel_order(sheet, row_number, now, io)
       IN  /\ sheet' = done.sheet
           /\ out' = [Out("stornieren_callback", u,
                          IF done.ok THEN "cancelled" ELSE "cancel_failed",
                          EmptyText, "none") EXCEPT !.arg = row_number]
           /\ user_data' = [user_data EXCEPT ![u] = EmptyDict]
           /\ storno_state' = [storno_state EXCEPT ![u] = END]
           /\ UNCHANGED order_state

\* any callback while the cancellation conversation is in STORNO_AUSWAHL and the
\* order conversation did not take the update
stornieren_callback(u, token, now, io, admin_ok) ==
    /\ UNCHANGED saving
    /\ storno_state[u] = STORNO_AUSWAHL
    /\ ~(order_state[u] = BESTAETIGUNG /\ token.prefix = "confirm_")
    /\ IF token = [prefix |-> "cancel_", arg |-> <<"a","b","o","r","t">>]
       THEN /\ storno_state' = [storno_state EXCEPT ![u] = END]
            /\ out' = Out("stornieren_callback", u, "aborted", EmptyText, "none")
            /\ UNCHANGED <<sheet, user_data, order_state>>
       ELSE IF ~IntParses(StripCancelPrefix(token))
       THEN \* ValueError from int(): the conversation keeps its state
            /\ out' = Out("stornieren_callback", u, "exception", EmptyText, "none")
            /\ UNCHANGED <<sheet, user_data, order_state, storno_state>>
       ELSE LET row_number == IntOf(StripCancelPrefix(token))
                pending == Get(user_data[u], "pending_orders", <<>>)
                k == FindOrder(pending, row_number)
                done == IF k # 0 THEN cancel_order(sheet, row_number, now, io)
                        ELSE [ok |-> FALSE, sheet |-> sheet]
            IN  /\ sheet' = done.sheet
                /\ out' = [(IF done.ok
                            THEN Out("stornieren_callback", u, "cancelled",
                                     pending[k].order_number,
                                     IF admin_ok THEN "sent" ELSE "failed")
                            ELSE Out("stornieren_callback", u, "cancel_failed",
                                     EmptyText, "none"))
                           EXCEPT !.arg = row_number]
                /\ user_data' = [user_data EXCEPT ![u] = EmptyDict]
                /\ storno_state' = [storno_state EXCEPT ![u] = END]
                /\ UNCHANGED order_state

\* ---------------------------------------------------------- query commands
\* /meine_bestellungen
meine_bestellungen(u, io) ==
    /\ UNCHANGED saving
    /\ LET pending == get_pending_orders_for_user(sheet, u, io.connect, io.read)
       IN  out' = OutResult("meine_bestellungen", u,
                            IF pending = <<>> THEN "none_pending" ELSE "pending_list",
                            <<>>, pending)
    /\ UNCHANGED <<sheet, user_data, order_state, storno_state>>

\* /suche <term>: each result is printed with its status glyph
suche_command(u, search_term, io) ==
    /\ UNCHANGED saving
    /\ LET results == search_orders(sheet, search_term, io.connect, io.read)
       IN  out' = OutResult("suche_command", u,
                            IF results = <<>> THEN "no_results" ELSE "results",
                            search_term,
                            [i \in 1..Len(results) |->
                                [order |-> results[i],
                                 status |-> StatusGlyph(results[i].bestellt)]])
    /\ UNCHANGED <<sheet, user_data, order_state, storno_state>>

\* /statistik
statistik_command(u, now, io) ==
    /\ UNCHANGED saving
    /\ LET stats == get_weekly_summary(sheet, now, io.connect, io.read)
       IN  out' = OutResult("statistik_command", u,
                            IF DOMAIN stats = {} THEN "stats_failed" ELSE "stats",
                            now, stats)
    /\ UNCHANGED <<sheet, user_data, order_state, storno_state>>

\* ------------------------------------------------------------ environment
\* An administrator marks a pending row as ordered by hand, in the sheet itself.
ManualEdit(r, status, now) ==
    /\ UNCHANGED saving
    /\ r \in 2..Len(sheet)
    /\ Strip(sheet[r][StatusCol]) = EmptyText
    /\ sheet' = UpdateCell(UpdateCell(sheet, r, StatusCol, status),
                           r, DateCol, FormatMinute(now))
    /\ out' = Out("manual_edit", 0, "none", EmptyText, "none")
    /\ UNCHANGED <<user_data, order_state, storno_state>>

\* Users inside a conversation.
ActiveUsers == {v \in Users : order_state[v] # END \/ storno_state[v] # END}
\* The model lets a user enter a conversation while fewer than MaxActive others
\* are inside one.
MayEnter(u) == Cardinality(ActiveUsers \ {u}) < MaxActive
\* The model starts no new order once the ledger holds MaxRows data rows.
HasRoom == Len(sheet) - 1 < MaxRows

Next ==
    \/ \E u \in Users : MayEnter(u) /\ HasRoom /\ start(u)
    \/ \E u \in Users, text \in ArtikelTexts : artikel(u, text)
    \/ \E u \in Users, text \in MengeTexts : menge(u, text)
    \/ \E u \in Users, text \in DringlichkeitTexts : dringlichkeit(u, text)
    \/ \E u \in Users, text \in KostenstelleTexts : kostenstelle(u, text)
    \/ \E u \in Users, file_id \in Photos : foto_received(u, file_id)
    \/ \E u \in Users : foto_skip(u)
    \/ \E u \in Users, token \in Tokens, now \in Nows, io \in SaveIo, admin_ok \in BOOLEAN :
          HasRoom /\ confirmation_callback(u, token, now, io, admin_ok)
    \/ \E u \in Users : cancel(u)
    \/ \E u \in Users, io \in ReadIo : MayEnter(u) /\ stornieren_start(u, io)
    \/ \E u \in Users, token \in Tokens, now \in Nows, io \in CancelIo, admin_ok \in BOOLEAN :
          stornieren_callback(u, token, now, io, admin_ok)
    \/ \E r \in 2..(MaxRows + 1), status \in ManualStatuses, now \in ManualNows :
          ManualEdit(r, status, now)

Spec == Init /\ [][Next]_vars

\* ================================================================ ledger model
\* The ledger functions called directly, in any order, by any identity.

\* save_to_sheet() with the data save_order() would build
AppendOp(u, text, now, io) ==
    /\ UNCHANGED saving
    /\ Len(sheet) - 1 < MaxLedgerRows
    /\ LET d == [artikel |-> text, menge |-> <<"2">>, dringlichkeit |-> <<"N","o">>,
                 kostenstelle |-> <<"L","a">>]
           saved == save_to_sheet(sheet, OrderData(u, d, now), io)
       IN  /\ sheet' = saved.sheet
           /\ out' = Out("save_to_sheet", u, IF saved.ok THEN "saved" ELSE "save_failed",
                         saved.order_number, "none")
    /\ UNCHANGED <<user_data, order_state, storno_state>>

\* cancel_order() on a data row: row positions come from earlier pending lists,
\* and every data row was pending when it was appended
CancelOp(r, now, io) ==
    /\ UNCHANGED saving
    /\ r \in 2..Len(sheet)
    /\ LET done == cancel_order(sheet, r, now, io)
       IN  /\ sheet' = done.sheet
           /\ out' = OutResult("cancel_order", 0,
                               IF done.ok THEN "cancelled" ELSE "cancel_failed", r, <<>>)
    /\ UNCHANGED <<user_data, order_state, storno_state>>

LedgerNext ==
    \/ \E u \in Users, text \in ArtikelTexts, now \in Nows, io \in SaveIo :
          AppendOp(u, text, now, io)
    \/ \E r \in 2..(MaxLedgerRows + 1), now \in Nows, io \in CancelIo : CancelOp(r, now, io)
    \/ \E u \in Users, io \in ReadIo : meine_bestellungen(u, io)
    \/ \E u \in Users, term \in SearchTerms, io \in ReadIo : suche_command(u, term, io)
    \/ \E u \in Users, now \in Nows, io \in ReadIo : statistik_command(u, now, io)
    \/ \E r \in 2..(MaxLedgerRows + 1), status \in ManualStatuses, now \in ManualNows :
          ManualEdit(r, status, now)

SpecLedger == Init /\ [][LedgerNext]_vars

\* =============================================================== pending model
\* get_pending_orders_for_user() over every ledger of up to MaxPendingRows data
\* rows: each row is a row save_to_sheet() wrote for some identity, with a
\* "Bestellt?" cell as the bot or a hand edit left it.

\* sequences over S of length up to n
SeqsUpTo(S, n) == UNION {[1..k -> S] : k \in 0..n}

\* what the "Bestellt?" cell of a row may hold
PendingStatuses == {EmptyText, <<" ">>, STORNIERT, <<"j","a">>}
RowKinds == [user : Users, status : PendingStatuses]

\* the k-th data row, written by save_to_sheet() for kind.user
RowOfKind(k, kind) ==
    LET d == [artikel |-> <<"T","o">>, menge |-> <<"2">>, dringlichkeit |-> <<"N","o">>,
              kostenstelle |-> <<"L","a">>]
        now == CHOOSE n \in Nows : TRUE
    IN  [OrderRow(FormatOrderNumber(k), OrderData(kind.user, d, now))
            EXCEPT ![StatusCol] = kind.status]

LedgerOfKinds(kinds) == <<HeaderRow>> \o [k \in 1..Len(kinds) |-> RowOfKind(k, kinds[k])]

InitPending ==
    /\ sheet \in {LedgerOfKinds(kinds) : kinds \in SeqsUpTo(RowKinds, MaxPendingRows)}
    /\ user_data = [u \in Users |-> EmptyDict]
    /\ order_state = [u \in Users |-> END]
    /\ storno_state = [u \in Users |-> END]
    /\ out = Out("none", 0, "none", EmptyText, "none")
    /\ saving = NoSaving

PendingNext == \E u \in Users, io \in ReadIo : meine_bestellungen(u, io)

SpecPending == InitPending /\ [][PendingNext]_vars

\* ================================================================ search model
\* search_orders() over the ledgers of up to MaxScanRows data rows, each row one
\* of two orders of different identities, articles and cost centers; up to
\* MaxOtherRows rows, at any positions, are the second order.

ScanOrders ==
    { [user |-> 1, artikel |-> <<"T","o">>, kostenstelle |-> <<"L","a">>],
      [user |-> 2, artikel |-> <<"l","a">>, kostenstelle |-> <<"B","u">>] }

\* terms given to /suche: each matches through another column or none, in a
\* case other than the stored one
ScanTerms == { <<"t","O">>, <<"L","I">>, <<"b","u">>, <<"l","a">>, <<"x">> }

\* the k-th data row, written by save_to_sheet() for the order
RowOfOrder(k, order) ==
    LET d == [artikel |-> order.artikel, menge |-> <<"2">>, dringlichkeit |-> <<"N","o">>,
              kostenstelle |-> order.kostenstelle]
        now == CHOOSE n \in Nows : TRUE
    IN  OrderRow(FormatOrderNumber(k), OrderData(order.user, d, now))

LedgerOfOrders(orders) ==
    <<HeaderRow>> \o [k \in 1..Len(orders) |-> RowOfOrder(k, orders[k])]

InitSearch ==
    /\ sheet \in {LedgerOfOrders(orders) :
                    orders \in {q \in SeqsUpTo(ScanOrders, MaxScanRows) :
                                  Cardinality({k \in 1..Len(q) : q[k].user = 2})
                                     <= MaxOtherRows}}
    /\ user_data = [u \in Users |-> EmptyDict]
    /\ order_state = [u \in Users |-> END]
    /\ storno_state = [u \in Users |-> END]
    /\ out = Out("none", 0, "none", EmptyText, "none")
    /\ saving = NoSaving

\* /suche by the first user (the search does not look at who asks)
SearchNext == \E term \in ScanTerms, io \in ReadIo : suche_command(1, term, io)

SpecSearch == InitSearch /\ [][SearchNext]_vars

\* ================================================================ weekly model
\* get_weekly_summary() over every ledger of up to MaxWeeklyRows data rows and a
\* few evaluation times. Day 7 is a Monday.

\* what the timestamp cell of a row may hold: the Sunday before, Monday
\* 00:00:00, Tuesday 00:00:05, Wednesday, and a text that is no timestamp
WeeklyStamps ==
    { FormatTimestamp([day |-> 6, min |-> 9, sec |-> 9, us |-> 0]),
      FormatTimestamp([day |-> 7, min |-> 0, sec |-> 0, us |-> 0]),
      FormatTimestamp([day |-> 8, min |-> 0, sec |-> 5, us |-> 0]),
      FormatTimestamp([day |-> 9, min |-> 0, sec |-> 0, us |-> 0]),
      <<"x">> }

\* what the "Bestellt?" cell of a row may hold
WeeklyStatuses == {EmptyText, <<" ">>, STORNIERT, Lower(STORNIERT), <<"j","a">>}
WeeklyKinds == [stamp : WeeklyStamps, status : WeeklyStatuses]

\* datetime.now() at /statistik: Monday 00:00:00 sharp, and Tuesday 00:01:00
\* with and without a microsecond part
WeeklyNows ==
    { [day |-> 7, min |-> 0, sec |-> 0, us |-> 0],
      [day |-> 8, min |-> 1, sec |-> 0, us |-> 0],
      [day |-> 8, min |-> 1, sec |-> 0, us |-> 1] }

\* the k-th data row, written by save_to_sheet()
RowOfWeek(k, kind) ==
    LET d == [artikel |-> <<"T","o">>, menge |-> <<"2">>, dringlichkeit |-> <<"N","o">>,
              kostenstelle |-> <<"L","a">>]
        now == CHOOSE n \in Nows : TRUE
    IN  [OrderRow(FormatOrderNumber(k), OrderData(1, d, now))
            EXCEPT ![2] = kind.stamp, ![StatusCol] = kind.status]

LedgerOfWeek(kinds) == <<HeaderRow>> \o [k \in 1..Len(kinds) |-> RowOfWeek(k, kinds[k])]

InitWeekly ==
    /\ sheet \in {LedgerOfWeek(kinds) : kinds \in SeqsUpTo(WeeklyKinds, MaxWeeklyRows)}
    /\ user_data = [u \in Users |-> EmptyDict]
    /\ order_state = [u \in Users |-> END]
    /\ storno_state = [u \in Users |-> END]
    /\ out = Out("none", 0, "none", EmptyText, "none")
    /\ saving = NoSaving

\* /statistik by the first user (the summary does not look at who asks)
WeeklyNext == \E now \in WeeklyNows, io \in ReadIo : statistik_command(1, now, io)

SpecWeekly == InitWeekly /\ [][WeeklyNext]_vars

\* ========================================================== two-process model
\* save_to_sheet() one store round trip at a time, run by one bot process per
\* identity against the same sheet. Inside one process the handlers run one
\* after the other; two processes share nothing but the sheet.

\* the data dict of the submit under way in u's process
RaceData(u, now) ==
    OrderData(u, [artikel |-> saving[u].text, menge |-> <<"2">>,
                  dringlichkeit |-> <<"N","o">>, kostenstelle |-> <<"L","a">>], now)

\* worksheet = get_google_sheet() at the head of save_to_sheet()
SaveConnect(u, text, connect_ok) ==
    /\ saving[u].pc \in {"idle", "done"}
    /\ (Len(sheet) - 1) + Cardinality({v \in Users : saving[v].pc \in {"connected", "numbered"}})
          < MaxRaceRows
    /\ saving' = [saving EXCEPT ![u] =
                     IF connect_ok THEN [Idle EXCEPT !.pc = "connected", !.text = text]
                     ELSE Idle]
    /\ out' = IF connect_ok THEN Out("get_google_sheet", u, "connected", EmptyText, "none")
              ELSE Out("save_to_sheet", u, "save_failed", EmptyText, "none")
    /\ UNCHANGED <<sheet, user_data, order_state, storno_state>>

\* order_number = get_next_order_number(): the row count as the sheet holds it now
SaveNumber(u, num_connect, num_read) ==
    /\ saving[u].pc = "connected"
    /\ saving' = [saving EXCEPT ![u].pc = "numbered",
                                ![u].order_number =
                                    get_next_order_number(sheet, num_connect, num_read),
                                ![u].seen =
                                    IF num_connect /\ num_read THEN Len(sheet) ELSE 0]
    /\ out' = Out("get_next_order_number", u, "numbered",
                  get_next_order_number(sheet, num_connect, num_read), "none")
    /\ UNCHANGED <<sheet, user_data, order_state, storno_state>>

\* the row with the number taken from the sheet at the moment of the append
RaceRow_atAppend(u, now) == OrderRow(FormatOrderNumber(Len(sheet)), RaceData(u, now))

\* the row save_to_sheet() has built: it carries the number read before
RaceRow(u, now) == OrderRow(saving[u].order_number, RaceData(u, now))

\* worksheet.append_row(row) and the return
SaveAppend(u, now, append_ok) ==
    /\ saving[u].pc = "numbered"
    /\ IF append_ok
       THEN /\ sheet' = Append(sheet, RaceRow(u, now))
            /\ saving' = [saving EXCEPT ![u].pc = "done"]
            /\ out' = Out("save_to_sheet", u, "saved", sheet'[Len(sheet')][1], "none")
       ELSE /\ sheet' = sheet
            /\ saving' = [saving EXCEPT ![u] = Idle]
            /\ out' = Out("save_to_sheet", u, "save_failed", EmptyText, "none")
    /\ UNCHANGED <<user_data, order_state, storno_state>>

RaceNext ==
    \/ \E u \in Users, text \in ArtikelTexts, connect_ok \in BOOLEAN :
          SaveConnect(u, text, connect_ok)
    \/ \E u \in Users, io \in SaveIo : SaveNumber(u, io.num_connect, io.num_read)
    \/ \E u \in Users, now \in Nows, append_ok \in BOOLEAN : SaveAppend(u, now, append_ok)

SpecRace == Init /\ [][RaceNext]_vars

\* ------------------------------------------------------------------ claims
\* Column numbers of the row layout.
OrderNumberCol == 1
ChatIdCol == 4
ArtikelCol == 5
KostenstelleCol == 8

\* the row positions a pending list or a search result names
RowsOf(list) == {list[i].row : i \in 1..Len(list)}

\* C1: from a header-only ledger, the k-th row appended by a successful,
\* non-interleaved append carries the order number k, zero-padded to 3 digits.
C1_SequentialOrderNumbers ==
    \A k \in 2..Len(sheet) : sheet[k][OrderNumberCol] = FormatOrderNumber(k - 1)

\* C5: once cancel_order(row) has returned True the row's status reads STORNIERT
\* in every later state, whatever is appended or cancelled afterwards, and no
\* identity's pending list names the row again.
C5_CancelIsPermanent ==
    [][\A r \in 2..Len(sheet) :
         /\ (out'.handler = "cancel_order" /\ out'.reply = "cancelled" /\ out'.arg = r)
               => sheet'[r][StatusCol] = STORNIERT
         /\ sheet[r][StatusCol] = STORNIERT => sheet'[r][StatusCol] = STORNIERT
         /\ sheet'[r][StatusCol] = STORNIERT =>
               \A u \in Users \cup {3} :
                  r \notin RowsOf(get_pending_orders_for_user(sheet', u, TRUE, TRUE))]_vars

\* C5 witness: a row was cancelled (status and date written) and a row was
\* appended after it.
C5_Witness ==
    /\ out.handler = "save_to_sheet" /\ out.reply = "saved"
    /\ \E r \in 2..(Len(sheet) - 1) :
          sheet[r][StatusCol] = STORNIERT /\ sheet[r][DateCol] # EmptyText

\* the non-empty substrings of a text
SubTexts(text) == {SubSeq(text, i, j) : i \in 1..Len(text), j \in 1..Len(text)} \ {<<>>}

\* the data rows before row r that a search for term matches
MatchesBefore(s, r, term) ==
    {j \in 2..(r - 1) :
        \E c \in {3, ArtikelCol, KostenstelleCol} : Contains(Lower(s[j][c]), Lower(term))}

\* C6: right after a successful cancel of a row, the owner's pending list does not
\* name the row, and a search for any substring of its article returns the row
\* (when fewer than 10 earlier rows match) with the glyph of a cancelled order.
C6_CancelledRowStillSearchable ==
    [][\A r \in 2..Len(sheet) :
         (out'.handler = "cancel_order" /\ out'.reply = "cancelled" /\ out'.arg = r) =>
            /\ \A u \in Users :
                  Str(u) = sheet'[r][ChatIdCol] =>
                     r \notin RowsOf(get_pending_orders_for_user(sheet', u, TRUE, TRUE))
            /\ \A term \in SubTexts(sheet'[r][ArtikelCol]) :
                  Cardinality(MatchesBefore(sheet', r, term)) < SearchLimit =>
                     LET found == search_orders(sheet', term, TRUE, TRUE)
                     IN  \E i \in 1..Len(found) :
                            /\ found[i].row = r
                            /\ StatusGlyph(found[i].bestellt) = "cancelled"]_vars

\* C6 witness: /suche with the article of a cancelled row as its term has shown
\* the row as cancelled, while the owner's pending list is without it.
C6_Witness ==
    /\ out.handler = "suche_command"
    /\ \E i \in 1..Len(out.result) :
          /\ out.result[i].status = "cancelled"
          /\ out.result[i].order.artikel = out.arg
          /\ sheet[out.result[i].order.row][DateCol] # EmptyText
          /\ \A u \in Users :
                out.result[i].order.row \notin
                   RowsOf(get_pending_orders_for_user(sheet, u, TRUE, TRUE))

\* C10: every step keeps every existing row at its position, and keeps its first
\* eight columns (order number to cost center) as they were written.
C10_AppendAndStatusOnly ==
    [][/\ Len(sheet') >= Len(sheet)
       /\ \A r \in 1..Len(sheet) :
             /\ Len(sheet'[r]) = Len(sheet[r])
             /\ \A c \in 1..KostenstelleCol : sheet'[r][c] = sheet[r][c]]_vars

\* C10 witness: a ledger of two data rows of which the first has been cancelled
\* by the last operation.
C10_Witness ==
    /\ out.handler = "cancel_order" /\ out.reply = "cancelled" /\ out.arg = 2
    /\ Len(sheet) = 3
    /\ sheet[2][StatusCol] = STORNIERT

\* C2: a successful submit in BESTAETIGUNG appends exactly one row after the
\* existing ones; the row carries the collected article, quantity, urgency and
\* cost center, the submitter's name and chat id, and empty status and date; the
\* order number sent to the user is the row count before the append, and is the
\* number stored in the row.
C2_SubmitAppendsNumberedRow ==
    [][\A u \in Users :
         (/\ order_state[u] = BESTAETIGUNG
          /\ out'.handler = "save_order" /\ out'.user = u /\ out'.reply = "saved")
         =>
         /\ Len(sheet') = Len(sheet) + 1
         /\ SubSeq(sheet', 1, Len(sheet)) = sheet
         /\ LET row == sheet'[Len(sheet')]
            IN  /\ row[ArtikelCol] = user_data[u]["artikel"]
                /\ row[6] = user_data[u]["menge"]
                /\ row[7] = user_data[u]["dringlichkeit"]
                /\ row[KostenstelleCol] = user_data[u]["kostenstelle"]
                /\ row[3] = Mitarbeiter(u)
                /\ row[ChatIdCol] = Str(u)
                /\ row[StatusCol] = EmptyText /\ row[DateCol] = EmptyText
                /\ row[OrderNumberCol] = out'.order_number
         /\ out'.order_number = FormatOrderNumber(Len(sheet))]_vars

\* the pending list of a sheet that was read
PendingOf(u) == get_pending_orders_for_user(sheet, u, TRUE, TRUE)

\* C3 as stated: after /meine_bestellungen every listed row has an empty status
\* cell and carries the asking identity.
C3_ListedRowsEmptyStatusOwn ==
    out.handler = "meine_bestellungen" =>
        \A i \in 1..Len(out.result) :
            /\ sheet[out.result[i].row][StatusCol] = EmptyText
            /\ sheet[out.result[i].row][ChatIdCol] = Str(out.user)

\* C3 amended: after /meine_bestellungen every listed row has a status cell that
\* is blank once surrounding whitespace is trimmed, and carries the asking
\* identity.
C3_ListedRowsBlankStatusOwn ==
    out.handler = "meine_bestellungen" =>
        \A i \in 1..Len(out.result) :
            /\ out.result[i].row \in 2..Len(sheet)
            /\ Strip(sheet[out.result[i].row][StatusCol]) = EmptyText
            /\ sheet[out.result[i].row][ChatIdCol] = Str(out.user)

\* C3 witness: a non-empty list was shown from a ledger that also holds a row of
\* the asking identity with a status and a pending row of another identity.
C3_Witness ==
    /\ out.handler = "meine_bestellungen" /\ out.result # <<>>
    /\ \E r \in 2..Len(sheet) :
          sheet[r][ChatIdCol] = Str(out.user) /\ Strip(sheet[r][StatusCol]) # EmptyText
    /\ \E r \in 2..Len(sheet) :
          sheet[r][ChatIdCol] # Str(out.user) /\ sheet[r][StatusCol] = EmptyText

\* C4: for every identity, the pending list read from the ledger names every
\* data row of the identity with an empty status, lists rows in ledger order, and
\* each entry's row is the sheet position of the row it was built from; a
\* non-empty list shown by /meine_bestellungen is that list.
C4_AllPendingInOrderWithPosition ==
    /\ \A u \in Users :
          LET list == PendingOf(u)
          IN  /\ \A r \in 2..Len(sheet) :
                    (sheet[r][ChatIdCol] = Str(u) /\ sheet[r][StatusCol] = EmptyText)
                       => r \in RowsOf(list)
              /\ \A i \in 1..Len(list) :
                    /\ list[i].row \in 2..Len(sheet)
                    /\ i > 1 => list[i - 1].row < list[i].row
                    /\ sheet[list[i].row][ChatIdCol] = Str(u)
                    /\ list[i].order_number = sheet[list[i].row][OrderNumberCol]
                    /\ list[i].timestamp = sheet[list[i].row][2]
                    /\ list[i].artikel = sheet[list[i].row][ArtikelCol]
                    /\ list[i].menge = sheet[list[i].row][6]
                    /\ list[i].dringlichkeit = sheet[list[i].row][7]
                    /\ list[i].kostenstelle = sheet[list[i].row][KostenstelleCol]
    /\ (out.handler = "meine_bestellungen" /\ out.result # <<>>)
          => out.result = PendingOf(out.user)

\* C4 witness: the ledger holds two pending rows of one identity with a pending
\* row of the other identity between them, and the first identity was shown
\* exactly its two rows, at positions 2 and 4.
C4_Witness ==
    /\ out.handler = "meine_bestellungen" /\ Len(out.result) = 2
    /\ Len(sheet) = 4
    /\ out.result[1].row = 2 /\ out.result[2].row = 4
    /\ sheet[3][ChatIdCol] # Str(out.user) /\ sheet[3][StatusCol] = EmptyText

\* the two cases of each letter
CasePairs == {{UpperAlpha[k], LowerAlpha[k]} : k \in 1..Len(UpperAlpha)}

\* two characters that are the same letter in either case, or the same character
SameLetter(a, b) == a = b \/ {a, b} \in CasePairs

\* the text holds the term at some offset, letters compared without case
HoldsTerm(text, term) ==
    \E off \in 0..(Len(text) - Len(term)) :
        \A j \in 1..Len(term) : SameLetter(text[off + j], term[j])

\* the data rows whose requester name, article or cost center holds the term
MatchingRows(term) ==
    {r \in 2..Len(sheet) :
        \E c \in {3, ArtikelCol, KostenstelleCol} : HoldsTerm(sheet[r][c], term)}

\* C7: for every term, the search of a ledger that was read returns min(10, m)
\* entries, the i-th being the i-th matching data row in ledger order with that
\* row's fields; what /suche shows is that result.
C7_FirstTenMatchesInOrder ==
    /\ \A term \in ScanTerms :
          LET found == search_orders(sheet, term, TRUE, TRUE)
              matching == MatchingRows(term)
              m == Cardinality(matching)
          IN  /\ Len(found) = IF m < SearchLimit THEN m ELSE SearchLimit
              /\ Len(found) <= SearchLimit
              /\ \A i \in 1..Len(found) :
                    /\ found[i].row \in matching
                    /\ Cardinality({r \in matching : r < found[i].row}) = i - 1
                    /\ found[i].order_number = sheet[found[i].row][OrderNumberCol]
                    /\ found[i].mitarbeiter = sheet[found[i].row][3]
                    /\ found[i].artikel = sheet[found[i].row][ArtikelCol]
                    /\ found[i].kostenstelle = sheet[found[i].row][KostenstelleCol]
                    /\ found[i].bestellt = sheet[found[i].row][StatusCol]
    /\ (out.handler = "suche_command" /\ out.result # <<>>) =>
          LET matching == MatchingRows(out.arg)
          IN  /\ Len(out.result) <= SearchLimit
              /\ \A i \in 1..Len(out.result) :
                    /\ out.result[i].order.row \in matching
                    /\ Cardinality({r \in matching : r < out.result[i].order.row}) = i - 1

\* C7 witness: /suche has shown 10 results for a term in lower case that more
\* than 10 rows match, some through a cost center and some through an article.
C7_Witness ==
    /\ out.handler = "suche_command" /\ Len(out.result) = SearchLimit
    /\ Cardinality(MatchingRows(out.arg)) > SearchLimit
    /\ \E i, j \in 1..Len(out.result) :
          /\ out.result[i].order.artikel = out.arg
          /\ out.result[j].order.kostenstelle # out.arg
          /\ HoldsTerm(out.result[j].order.kostenstelle, out.arg)

\* /statistik has shown a summary: out.arg is the evaluation time, out.result the
\* counters
StatsShown == out.handler = "statistik_command" /\ out.reply = "stats"

\* the data rows the summary counted for the evaluation time
CountedRows(now) == {r \in 2..Len(sheet) : InWeek(sheet[r], WeekStart(now))}

\* the text is empty or whitespace only
IsBlank(text) == \A i \in 1..Len(text) : text[i] \in {" ", "\t", "\n"}

\* the text is the word, in any case, with whitespace around it at most
ReadsAs(text, word) ==
    \E lo \in 1..Len(text) :
        /\ lo + Len(word) - 1 <= Len(text)
        /\ \A j \in 1..Len(word) : SameLetter(text[lo + j - 1], word[j])
        /\ IsBlank(SubSeq(text, 1, lo - 1))
        /\ IsBlank(SubSeq(text, lo + Len(word), Len(text)))

\* C8 as stated: the three counters add up to the total, pending counts the
\* counted rows with an empty status, cancelled those with status STORNIERT,
\* ordered those with any other non-empty status.
C8_SumAndExactStatusClasses ==
    StatsShown =>
        LET counted == CountedRows(out.arg)
        IN  /\ out.result.pending + out.result.ordered + out.result.cancelled
                  = out.result.total
            /\ out.result.pending =
                  Cardinality({r \in counted : sheet[r][StatusCol] = EmptyText})
            /\ out.result.cancelled =
                  Cardinality({r \in counted : sheet[r][StatusCol] = STORNIERT})
            /\ out.result.ordered =
                  Cardinality({r \in counted :
                                  sheet[r][StatusCol] \notin {EmptyText, STORNIERT}})

\* C8 amended: the three counters add up to the total; pending counts the counted
\* rows whose status is blank, cancelled those whose status reads STORNIERT in
\* any case with whitespace around it at most, ordered all other counted rows.
C8_SumAndNormalisedStatusClasses ==
    StatsShown =>
        LET counted == CountedRows(out.arg)
            blank == {r \in counted : IsBlank(sheet[r][StatusCol])}
            storno == {r \in counted : ReadsAs(sheet[r][StatusCol], STORNIERT)}
        IN  /\ out.result.pending + out.result.ordered + out.result.cancelled
                  = out.result.total
            /\ out.result.total = Cardinality(counted)
            /\ out.result.pending = Cardinality(blank)
            /\ out.result.cancelled = Cardinality(storno)
            /\ out.result.ordered = Cardinality(counted \ (blank \cup storno))
            /\ blank \cap storno = {}

\* C8 witness: a summary of two counted rows was shown, one with a status of a
\* single space counted as pending and one with a lower-case status counted as
\* cancelled.
C8_Witness ==
    /\ StatsShown
    /\ out.result.total = 2 /\ out.result.pending = 1 /\ out.result.cancelled = 1
    /\ \E r, q \in CountedRows(out.arg) :
          sheet[r][StatusCol] = <<" ">> /\ sheet[q][StatusCol] = Lower(STORNIERT)

\* the timestamp text parses and lies between Monday 00:00:00 of now's week and
\* now
InWindow(text, now) ==
    /\ Parses(text)
    /\ LET ts == ParseTimestamp(text)
       IN  /\ ts.day >= now.day - (now.day % DaysPerWeek)
           /\ \/ ts.day < now.day
              \/ ts.day = now.day /\ ts.min < now.min
              \/ ts.day = now.day /\ ts.min = now.min /\ ts.sec <= now.sec

\* C9: the summary's total is the number of data rows whose timestamp parses and
\* lies in the window from Monday 00:00 of now's week up to now; rows before
\* that Monday and rows later than now are in no counter.
C9_CountsExactlyWindowRows ==
    StatsShown =>
        LET window == {r \in 2..Len(sheet) : InWindow(sheet[r][2], out.arg)}
        IN  /\ out.result.total = Cardinality(window)
            /\ out.result.pending + out.result.ordered + out.result.cancelled
                  = Cardinality(window)

\* C11: (a) when a process reads the row count while the other process has read
\* it and nothing was appended since, both hold the same count and the same
\* order number; (b) once two processes that read the same count have both
\* appended, the ledger holds a row of each identity and the two rows carry the
\* same order number.
C11_InterleavedSubmitsShareNumber ==
    [][\A u, v \in Users :
         u # v =>
         /\ (/\ saving[v].pc = "numbered" /\ saving[v].seen = Len(sheet)
             /\ saving[u].pc = "connected"
             /\ saving'[u].pc = "numbered" /\ saving'[u].seen # 0)
            => /\ saving'[u].seen = saving'[v].seen
               /\ saving'[u].order_number = saving'[v].order_number
         /\ (/\ saving'[u].pc = "done" /\ saving'[v].pc = "done"
             /\ saving'[u].seen = saving'[v].seen /\ saving'[u].seen # 0)
            => \E r, q \in 2..Len(sheet') :
                  /\ r # q
                  /\ sheet'[r][ChatIdCol] = Str(u) /\ sheet'[q][ChatIdCol] = Str(v)
                  /\ sheet'[r][OrderNumberCol] = sheet'[q][OrderNumberCol]
                  /\ sheet'[r][OrderNumberCol] = FormatOrderNumber(saving'[u].seen)]_vars

\* C11 witness: both processes read the count of the header-only ledger, both
\* appended, and the ledger holds two rows numbered #001 of different identities.
C11_Witness ==
    /\ \A u \in Users : saving[u].pc = "done" /\ saving[u].seen = 1
    /\ Len(sheet) = 3
    /\ sheet[2][OrderNumberCol] = FormatOrderNumber(1)
    /\ sheet[3][OrderNumberCol] = FormatOrderNumber(1)
    /\ sheet[2][ChatIdCol] # sheet[3][ChatIdCol]

\* the steps of order_conv_handler: from state, to state, handler that ran
OrderFlowSteps ==
    { <<END, ARTIKEL, "start">>,
      <<ARTIKEL, MENGE, "artikel">>,
      <<MENGE, DRINGLICHKEIT, "menge">>,
      <<DRINGLICHKEIT, KOSTENSTELLE, "dringlichkeit">>,
      <<KOSTENSTELLE, FOTO, "kostenstelle">>,
      <<FOTO, BESTAETIGUNG, "foto_received">>,
      <<FOTO, BESTAETIGUNG, "foto_skip">>,
      <<BESTAETIGUNG, ARTIKEL, "confirmation_callback">>,
      <<BESTAETIGUNG, END, "confirmation_callback">>,
      <<BESTAETIGUNG, END, "save_order">> }
    \cup { <<s, END, "cancel">> : s \in ARTIKEL..BESTAETIGUNG }

\* C12: the order flow of an identity changes state only by a step of the chain
\* ARTIKEL, MENGE, DRINGLICHKEIT, KOSTENSTELLE, FOTO, BESTAETIGUNG taken by the
\* handler of that state's input (or by a restart, a submit or an abort), and the
\* ledger gains a row only by a submit in BESTAETIGUNG, a row of that identity.
C12_OrderFlowChainAndSubmitOnly ==
    [][/\ \A u \in Users :
             order_state'[u] # order_state[u] =>
                /\ <<order_state[u], order_state'[u], out'.handler>> \in OrderFlowSteps
                /\ out'.user = u
       /\ Len(sheet') # Len(sheet) =>
             /\ Len(sheet') = Len(sheet) + 1
             /\ out'.handler = "save_order"
             /\ order_state[out'.user] = BESTAETIGUNG
             /\ sheet'[Len(sheet')][ChatIdCol] = Str(out'.user)
             /\ \A k \in OrderKeys \cup {"foto_id"} : k \in DOMAIN user_data[out'.user]]_vars

\* C12 witness: a submit has appended a second data row, a row of the submitting
\* identity, and that identity's flow has ended.
C12_Witness ==
    /\ out.handler = "save_order" /\ out.reply = "saved"
    /\ Len(sheet) = 3
    /\ sheet[3][ChatIdCol] = Str(out.user)
    /\ order_state[out.user] = END

\* C13: in every state of the order flow /abbrechen is accepted, and when it is
\* handled the flow ends, the identity's scratch state is empty and the ledger
\* is as it was.
C13_AbortAcceptedInEveryState ==
    [][\A u \in Users :
         order_state[u] # END =>
            /\ ENABLED cancel(u)
            /\ (out'.handler = "cancel" /\ out'.user = u) =>
                  /\ order_state'[u] = END
                  /\ user_data'[u] = EmptyDict
                  /\ sheet' = sheet]_vars

\* C13 witness: /abbrechen has ended the order flow of an identity that is also
\* choosing an order to cancel, with a non-empty ledger.
C13_Witness ==
    /\ out.handler = "cancel"
    /\ order_state[out.user] = END /\ storno_state[out.user] = STORNO_AUSWAHL
    /\ user_data[out.user] = EmptyDict
    /\ Len(sheet) > 1

\* the order fields the flow has collected when it is in the state
FieldsBy(state) ==
    IF state = MENGE THEN {"artikel"}
    ELSE IF state = DRINGLICHKEIT THEN {"artikel", "menge"}
    ELSE IF state = KOSTENSTELLE THEN {"artikel", "menge", "dringlichkeit"}
    ELSE IF state \in {FOTO, BESTAETIGUNG} THEN OrderKeys \cup {"foto_id"}
    ELSE {}

\* C14: a restart in BESTAETIGUNG empties the scratch state, moves the flow to
\* ARTIKEL and leaves the ledger as it was; an abort there empties the scratch
\* state, ends the flow and leaves the ledger as it was; the scratch state never
\* holds an order field of a state the flow has not passed since, so a submit
\* after a restart stores the fields entered after it.
C14_RestartAndAbortInConfirm ==
    [][\A u \in Users :
         /\ (out'.handler = "confirmation_callback" /\ out'.user = u) =>
               /\ order_state[u] = BESTAETIGUNG
               /\ user_data'[u] = EmptyDict
               /\ sheet' = sheet
               /\ out'.reply = "restart" => order_state'[u] = ARTIKEL
               /\ out'.reply = "aborted" => order_state'[u] = END
               /\ out'.reply \in {"restart", "aborted"}
         /\ DOMAIN user_data'[u] \cap (OrderKeys \cup {"foto_id"})
               \subseteq FieldsBy(order_state'[u])
         /\ (out'.handler = "save_order" /\ out'.user = u /\ out'.reply = "saved") =>
               LET row == sheet'[Len(sheet')]
               IN  /\ row[ArtikelCol] = user_data[u]["artikel"]
                   /\ row[6] = user_data[u]["menge"]
                   /\ row[7] = user_data[u]["dringlichkeit"]
                   /\ row[KostenstelleCol] = user_data[u]["kostenstelle"]]_vars

\* C14 witness: a restart has moved the flow of an identity back to ARTIKEL with
\* an empty scratch state, the ledger holding an earlier order.
C14_Witness ==
    /\ out.handler = "confirmation_callback" /\ out.reply = "restart"
    /\ order_state[out.user] = ARTIKEL
    /\ user_data[out.user] = EmptyDict
    /\ Len(sheet) > 1

\* C15: whenever the order flow or the cancellation flow of an identity ends, the
\* identity's scratch state is empty.
C15_ScratchEmptyAtFlowEnd ==
    [][\A u \in Users :
         (\/ order_state[u] # END /\ order_state'[u] = END
          \/ storno_state[u] # END /\ storno_state'[u] = END)
         => user_data'[u] = EmptyDict]_vars

\* C16: /stornieren by an identity whose pending list comes back empty (no
\* pending row of its own, or the sheet could not be read) leaves the
\* cancellation flow ended, offers no order, and leaves the ledger and the
\* scratch state as they were; the flow enters STORNO_AUSWAHL only with a
\* non-empty list.
C16_NoPendingNoSelection ==
    [][\A u \in Users :
         (out'.handler = "stornieren_start" /\ out'.user = u) =>
            /\ storno_state[u] = END
            /\ sheet' = sheet
            /\ PendingOf(u) = <<>> =>
                  /\ out'.result = <<>>
                  /\ out'.reply = "none_pending"
                  /\ storno_state'[u] = END
                  /\ user_data'[u] = user_data[u]
            /\ out'.result = <<>> =>
                  /\ out'.reply = "none_pending"
                  /\ storno_state'[u] = END
                  /\ user_data'[u] = user_data[u]
            /\ storno_state'[u] = STORNO_AUSWAHL =>
                  /\ out'.result # <<>>
                  /\ out'.result = PendingOf(u)]_vars

\* C16 witness: /stornieren was answered with "no pending orders" for an identity
\* whose only order is cancelled, and its cancellation flow is not under way.
C16_Witness ==
    /\ out.handler = "stornieren_start" /\ out.reply = "none_pending"
    /\ storno_state[out.user] = END
    /\ \E r \in 2..Len(sheet) :
          sheet[r][ChatIdCol] = Str(out.user) /\ sheet[r][StatusCol] = STORNIERT
    /\ PendingOf(out.user) = <<>>

\* C17: every callback handled by stornieren_callback while the cancellation
\* flow is in STORNO_AUSWAHL ends the flow, after an abort or after at most one
\* cancel_order() attempt.
C17_SelectionEndsFlow ==
    [][\A u \in Users :
         (/\ storno_state[u] = STORNO_AUSWAHL
          /\ out'.handler = "stornieren_callback" /\ out'.user = u)
         => /\ storno_state'[u] = END
            /\ out'.reply \in {"aborted", "cancelled", "cancel_failed"}]_vars

\* the rows whose cells differ between two sheets
ChangedRows(s1, s2) == {r \in 1..Len(s1) : r > Len(s2) \/ s1[r] # s2[r]}

\* C18: a submit either stores one row and reports it, or stores nothing, sends
\* the failure message and ends the flow with an empty scratch state; a selection
\* naming a cached row either cancels it and reports it, or sends the failure
\* message, and either way ends the flow having touched at most that one row.
C18_FailureEndsFlowWithoutRetry ==
    [][\A u \in Users :
         /\ (out'.handler = "save_order" /\ out'.user = u /\ out'.reply # "exception") =>
               /\ order_state[u] = BESTAETIGUNG
               /\ order_state'[u] = END
               /\ user_data'[u] = EmptyDict
               /\ \/ out'.reply = "saved" /\ Len(sheet') = Len(sheet) + 1
                  \/ out'.reply = "save_failed" /\ sheet' = sheet
         /\ (/\ out'.handler = "stornieren_callback" /\ out'.user = u
             /\ out'.reply \in {"cancelled", "cancel_failed"}) =>
               /\ storno_state[u] = STORNO_AUSWAHL
               /\ storno_state'[u] = END
               /\ user_data'[u] = EmptyDict
               /\ Len(sheet') = Len(sheet)
               /\ Cardinality(ChangedRows(sheet', sheet)) <= 1
               /\ \A r \in ChangedRows(sheet', sheet) :
                     r \in RowsOf(Get(user_data[u], "pending_orders", <<>>))
               /\ out'.reply = "cancelled" =>
                     \E r \in 2..Len(sheet') : sheet'[r][StatusCol] = STORNIERT]_vars

\* C18 witness: a submit failed at the store: the user got the failure message,
\* the flow has ended with an empty scratch state and the ledger holds only the
\* earlier order.
C18_Witness ==
    /\ out.handler = "save_order" /\ out.reply = "save_failed"
    /\ order_state[out.user] = END
    /\ user_data[out.user] = EmptyDict
    /\ Len(sheet) = 2

\* C19: whenever a handler has tried to notify the admin, sent or failed alike,
\* the step has stored the order (or marked the chosen row), sent the user the
\* success message with the order number, ended the flow and emptied the scratch
\* state: all of it is given by the state before and the store outcome alone.
C19_AdminFailureChangesNothing ==
    [][\A u \in Users :
         (out'.user = u /\ out'.admin \in {"sent", "failed"}) =>
            /\ user_data'[u] = EmptyDict
            /\ \A v \in Users \ {u} : user_data'[v] = user_data[v]
            /\ out'.handler = "save_order" =>
                  /\ out'.reply = "saved"
                  /\ order_state'[u] = END /\ storno_state' = storno_state
                  /\ \E now \in Nows, io \in SaveIo :
                        LET saved == save_to_sheet(sheet, OrderData(u, user_data[u], now), io)
                        IN  /\ saved.ok
                            /\ sheet' = saved.sheet
                            /\ out'.order_number = saved.order_number
            /\ out'.handler = "stornieren_callback" =>
                  /\ out'.reply = "cancelled"
                  /\ storno_state'[u] = END /\ order_state' = order_state
                  /\ \E now \in Nows, io \in CancelIo,
                        k \in 1..Len(Get(user_data[u], "pending_orders", <<>>)) :
                        LET order == user_data[u]["pending_orders"][k]
                            done == cancel_order(sheet, order.row, now, io)
                        IN  /\ done.ok
                            /\ sheet' = done.sheet
                            /\ out'.order_number = order.order_number
            /\ out'.handler \in {"save_order", "stornieren_callback"}]_vars

\* C19 witness: an order was stored and reported to the user while the admin
\* notification failed; the flow has ended and the scratch state is empty.
C19_Witness ==
    /\ out.handler = "save_order" /\ out.reply = "saved" /\ out.admin = "failed"
    /\ order_state[out.user] = END
    /\ user_data[out.user] = EmptyDict
    /\ sheet[Len(sheet)][ChatIdCol] = Str(out.user)

\* the row positions cached for an identity by /stornieren
CachedRows(u) == RowsOf(Get(user_data[u], "pending_orders", <<>>))

\* C20: a cached pending list is written only by /stornieren on entering
\* STORNO_AUSWAHL and names only rows of that identity; a handler step changes an
\* existing row only in stornieren_callback, and then only the row the token
\* names, which is in the list cached for the selecting identity and carries its
\* chat id; a token naming any other row leaves the ledger as it was.
C20_CancelOnlyCachedOwnRows ==
    [][\A u \in Users :
         /\ \A r \in CachedRows(u) :
               r \in 2..Len(sheet) /\ sheet[r][ChatIdCol] = Str(u)
         /\ (CachedRows(u)' # CachedRows(u) /\ CachedRows(u)' # {}) =>
               /\ out'.handler = "stornieren_start" /\ out'.user = u
               /\ storno_state[u] = END /\ storno_state'[u] = STORNO_AUSWAHL
         /\ (out'.user = u /\ out'.handler # "manual_edit") =>
               \A r \in 2..Len(sheet) :
                  sheet'[r] # sheet[r] =>
                     /\ out'.handler = "stornieren_callback"
                     /\ out'.arg = r
                     /\ r \in CachedRows(u)
                     /\ sheet[r][ChatIdCol] = Str(u)
         /\ (/\ out'.user = u /\ out'.handler = "stornieren_callback"
             /\ out'.reply \in {"cancelled", "cancel_failed"}
             /\ out'.arg \notin CachedRows(u)) =>
               /\ sheet' = sheet
               /\ out'.reply = "cancel_failed"]_vars

\* C20 witness: an identity in STORNO_AUSWAHL sent a token naming the pending row
\* of another identity: it got the failure message and the row is still pending.
C20_Witness ==
    /\ out.handler = "stornieren_callback" /\ out.reply = "cancel_failed"
    /\ out.arg \in 2..Len(sheet)
    /\ sheet[out.arg][ChatIdCol] # Str(out.user)
    /\ sheet[out.arg][StatusCol] = EmptyText
    /\ storno_state[out.user] = END

\* C21: a step of the bot writes only two values into the "Bestellt?" column:
\* the empty text in the row it appends and "STORNIERT" in a row it cancels; any
\* other change of a status cell is a manual edit of the sheet.
C21_EngineWritesEmptyOrCancelled ==
    [][out'.handler # "manual_edit" =>
          /\ Len(sheet') >= Len(sheet)
          /\ \A r \in 2..Len(sheet') :
                IF r > Len(sheet)
                THEN /\ sheet'[r][StatusCol] = EmptyText
                     /\ out'.handler = "save_order"
                ELSE sheet'[r][StatusCol] # sheet[r][StatusCol] =>
                        /\ sheet'[r][StatusCol] = STORNIERT
                        /\ out'.handler = "stornieren_callback"
                        /\ out'.arg = r]_vars

\* C21 witness: the ledger holds a row the bot appended and has not touched since
\* (empty status), and a row the bot has just cancelled ("STORNIERT").
C21_Witness ==
    /\ out.handler = "stornieren_callback" /\ out.reply = "cancelled"
    /\ out.arg \in 2..Len(sheet)
    /\ sheet[out.arg][StatusCol] = STORNIERT
    /\ \E r \in 2..Len(sheet) : r # out.arg /\ sheet[r][StatusCol] = EmptyText

\* the token of the button offered for a row, and a cancel whose writes all succeed
CancelToken(r) == [prefix |-> "cancel_", arg |-> Str(r)]
CancelAllOk == [connect |-> TRUE, write_status |-> TRUE, write_date |-> TRUE]

\* C22: nothing protects the read-then-update sequence of a cancellation: when a
\* row cached as pending on entering STORNO_AUSWAHL has had its status set by a
\* manual edit since, selecting it still cancels it; the step that reports the
\* cancellation has overwritten the non-empty status with "STORNIERT" and put the
\* time of the cancellation in place of the "Bestellt am" value.
C22_StaleSelectionStillCancels ==
    [][\A u \in Users : \A r \in CachedRows(u) :
         (/\ storno_state[u] = STORNO_AUSWAHL
          /\ Strip(sheet[r][StatusCol]) # EmptyText) =>
            /\ \A now \in Nows :
                  ENABLED (/\ stornieren_callback(u, CancelToken(r), now, CancelAllOk, TRUE)
                           /\ out'.reply = "cancelled"
                           /\ sheet'[r][StatusCol] = STORNIERT
                           /\ sheet'[r][DateCol] = FormatMinute(now))
            /\ (/\ out'.handler = "stornieren_callback" /\ out'.user = u
                /\ out'.reply = "cancelled" /\ out'.arg = r) =>
                  /\ sheet'[r][StatusCol] = STORNIERT
                  /\ sheet[r][StatusCol] # STORNIERT
                  /\ sheet'[r][DateCol] # sheet[r][DateCol]
                  /\ \E now \in Nows : sheet'[r][DateCol] = FormatMinute(now)]_vars

\* C22 witness: an identity is choosing among the rows /stornieren listed, and one
\* of the listed rows has been marked as ordered by hand since the list was read.
C22_Witness ==
    \E u \in Users : \E r \in CachedRows(u) :
        /\ storno_state[u] = STORNO_AUSWAHL
        /\ sheet[r][ChatIdCol] = Str(u)
        /\ sheet[r][StatusCol] \in ManualStatuses
        /\ sheet[r][DateCol] # EmptyText

\* the order fields of a scratch state, as far as it holds them
OrderFields(d) == [k \in OrderKeys \cap DOMAIN d |-> d[k]]

\* C23: in FOTO a photo and /weiter (or /skip) both take the flow to
\* BESTAETIGUNG; after a photo "foto_id" is the photo's file id, after a skip it
\* is the empty text, and the four fields collected before are as they were.
C23_PhotoOrSkipReachesConfirm ==
    [][\A u \in Users :
         (/\ order_state[u] = FOTO
          /\ out'.user = u
          /\ out'.handler \in {"foto_received", "foto_skip"}) =>
            /\ order_state'[u] = BESTAETIGUNG
            /\ "foto_id" \in DOMAIN user_data'[u]
            /\ out'.handler = "foto_received" => user_data'[u]["foto_id"] \in Photos
            /\ out'.handler = "foto_skip" => user_data'[u]["foto_id"] = EmptyText
            /\ OrderFields(user_data'[u]) = OrderFields(user_data[u])]_vars

\* C24: while an identity's order flow is in BESTAETIGUNG its scratch state
\* holds artikel, menge, dringlichkeit and kostenstelle, whatever the identity
\* did in the cancellation flow meanwhile; a submit never fails on a missing field.
C24_ConfirmHoldsAllFields ==
    /\ \A u \in Users :
          order_state[u] = BESTAETIGUNG => OrderKeys \subseteq DOMAIN user_data[u]
    /\ out.handler = "save_order" => out.reply # "exception"

\* C25: cancel_order(row) is all-or-nothing: when it returns False the row's
\* "Bestellt?" and "Bestellt am" cells are as they were, when it returns True both
\* are set, and no row is left with "STORNIERT" and an empty "Bestellt am".
C25_CancelAllOrNothing ==
    [][/\ out'.handler = "cancel_order" =>
             LET r == out'.arg
             IN  /\ out'.reply = "cancel_failed" =>
                       /\ sheet'[r][StatusCol] = sheet[r][StatusCol]
                       /\ sheet'[r][DateCol] = sheet[r][DateCol]
                 /\ out'.reply = "cancelled" =>
                       /\ sheet'[r][StatusCol] = STORNIERT
                       /\ \E now \in Nows : sheet'[r][DateCol] = FormatMinute(now)
       /\ \A r \in 2..Len(sheet') :
             ~(sheet'[r][StatusCol] = STORNIERT /\ sheet'[r][DateCol] = EmptyText)]_vars

\* C26: with no interleaving and any single store round trip allowed to fail,
\* every save_to_sheet() that returns success has written a row whose order
\* number is the row count read before the append and is on no earlier row; a
\* failed connect or read of the numbering never puts "#001" or "#???" in a row.
C26_SuccessfulAppendNumberedByCount ==
    [][(out'.handler = "save_to_sheet" /\ out'.reply = "saved") =>
          /\ Len(sheet') = Len(sheet) + 1
          /\ LET number == sheet'[Len(sheet')][OrderNumberCol]
             IN  /\ number = FormatOrderNumber(Len(sheet))
                 /\ number = out'.order_number
                 /\ number # <<"#","?","?","?">>
                 /\ \A r \in 2..Len(sheet) : sheet[r][OrderNumberCol] # number]_vars

====
